---- MODULE Spec2Model ----
(***************************************************************************)
(* Model of src/index.js: an interactive file-manager shell on Node.js.    *)
(*                                                                         *)
(* Every input line is handed to the async function handleCommand by the   *)
(* readline 'line' event.  A handler runs synchronously up to its first    *)
(* await; the rest of it runs later, as promise continuations and stream   *)
(* callbacks on the event loop.  Each action below is one such step: the   *)
(* synchronous part of a handler, one filesystem call executed by the      *)
(* thread pool, one stream step, or one continuation.                      *)
(*                                                                         *)
(* Paths are sequences of single-character names (the root is <<>>), so    *)
(* that the string prefix test of String.prototype.startsWith coincides    *)
(* with the prefix test on sequences.  File contents are sequences of      *)
(* chunks (integers); a file is a path bound to an inode, and the content  *)
(* belongs to the inode, as on POSIX.                                      *)
(***************************************************************************)
EXTENDS Integers, Sequences, FiniteSets, TLC

VARIABLES
    currentDir,  \* index.js:18   let currentDir
    dirs,        \* the filesystem: set of existing directory paths
    files,       \* the filesystem: file path -> inode
    data,        \* the filesystem: inode -> content (sequence of chunks)
    h,           \* one record per input line read so far: the invocation of handleCommand
    input,       \* the input line, while the step that reads it hands it to handleCommand
    out,         \* everything written to stdout/stderr, in order
    proc         \* "running", "exited" (process.exit(0)) or "crashed" (uncaught exception)

\* The interrupt handler (index.js:199-202) is left out: no input of the model sends SIGINT.

vars == <<currentDir, dirs, files, data, h, input, out, proc>>

\* Number of input lines the environment delivers.
MaxLines == 2

----------------------------------------------------------------------------
(* path module                                                              *)

RECURSIVE Normalize(_, _)
\* path.normalize on a segment list: drop ".", let ".." pop (the root has no parent).
Normalize(acc, segs) ==
    IF segs = <<>> THEN acc
    ELSE LET s == Head(segs) IN
         IF s = "." THEN Normalize(acc, Tail(segs))
         ELSE IF s = ".."
              THEN Normalize(IF acc = <<>> THEN <<>> ELSE SubSeq(acc, 1, Len(acc) - 1), Tail(segs))
              ELSE Normalize(Append(acc, s), Tail(segs))

\* A token of the input line, as the path module reads it.
Rel(segs) == [abs |-> FALSE, segs |-> segs]
Abs(segs) == [abs |-> TRUE, segs |-> segs]

\* path.resolve(base, tok): an absolute token replaces the base.
Resolve(base, tok) ==
    IF tok.abs THEN Normalize(<<>>, tok.segs) ELSE Normalize(base, tok.segs)

\* path.join(base, tok): the token is appended to the base even when it starts with "/".
Join(base, tok) == Normalize(base, tok.segs)

\* path.dirname
Dirname(p) == IF p = <<>> THEN <<>> ELSE SubSeq(p, 1, Len(p) - 1)

\* path.parse(dir): the fields isRootDir reads.
PathParse(p) == [root |-> <<>>, dir |-> Dirname(p)]

\* index.js:28-31
isRootDir(dir) ==
    LET parsed == PathParse(dir)
    IN  parsed.root = dir \/ parsed.dir = parsed.root

\* String.prototype.startsWith on path strings (names are single characters).
StartsWith(p, q) == Len(p) >= Len(q) /\ SubSeq(p, 1, Len(q)) = q

\* os.homedir()
HomeDir == <<"h", "u">>

----------------------------------------------------------------------------
(* the filesystem, as the fs module's calls see it                          *)

IsDir(p) == p \in dirs
IsFile(p) == p \in DOMAIN files

\* fs.stat(p): what stats.isDirectory() tells, or the error.
Stat(p) == IF IsDir(p) THEN "dir" ELSE IF IsFile(p) THEN "file" ELSE "ENOENT"

\* open(p, 'r') followed by reads: fails on a missing path (ENOENT) or a directory (EISDIR).
CanRead(p) == IsFile(p)

\* open(p, 'w'): fails on a directory (EISDIR) or under a missing directory (ENOENT).
CanWrite(p) == ~IsDir(p) /\ IsDir(Dirname(p))

\* open(p, 'w') by line i: truncates an existing file, else creates inode i.
WriteIno(p, i) == IF IsFile(p) THEN files[p] ELSE i
FilesAfterOpenW(p, i) == IF IsFile(p) THEN files ELSE (p :> i) @@ files
DataAfterOpenW(p, i) == (WriteIno(p, i) :> <<>>) @@ data

\* unlink(p): removes a file name; fails on anything else.
CanUnlink(p) == IsFile(p)
FilesAfterUnlink(p) == [q \in (DOMAIN files) \ {p} |-> files[q]]

\* rename(old, new) of POSIX.
CanRename(old, new) ==
    /\ IsDir(old) \/ IsFile(old)
    /\ IsDir(Dirname(new))
    /\ \/ old = new
       \/ IsFile(old) /\ ~IsDir(new)
       \/ /\ IsDir(old)
          /\ ~IsFile(new)
          /\ ~StartsWith(new, old)
          /\ ~\E q \in dirs \cup DOMAIN files : q # new /\ StartsWith(q, new)

Rebase(p, old, new) ==
    IF StartsWith(p, old) THEN new \o SubSeq(p, Len(old) + 1, Len(p)) ELSE p

DirsAfterRename(old, new) ==
    IF IsDir(old) THEN {Rebase(d, old, new) : d \in dirs} ELSE dirs

FilesAfterRename(old, new) ==
    IF old = new THEN files
    ELSE IF IsFile(old)
         THEN (new :> files[old]) @@ [q \in (DOMAIN files) \ {old, new} |-> files[q]]
         ELSE LET moved == {Rebase(q, old, new) : q \in DOMAIN files}
              IN  [q \in moved |-> files[CHOOSE r \in DOMAIN files : Rebase(r, old, new) = q]]

\* fs.readdir(p, {withFileTypes: true}): the entries directly under p.
ReadDir(p) ==
    {[name |-> d[Len(d)], type |-> "directory"] : d \in {e \in dirs : e # <<>> /\ Dirname(e) = p}}
    \cup
    {[name |-> f[Len(f)], type |-> "file"] : f \in {e \in DOMAIN files : Dirname(e) = p}}

----------------------------------------------------------------------------
(* zlib and crypto, by what the pipeline stages do to a chunk               *)

\* Brotli encoder: a code word per chunk, and an end-of-stream marker at flush.
BrotliEncode(k) == k + 10
BrotliEnd == 0 - 1
\* Brotli decoder: only code words and the marker are well-formed input.
BrotliValid(c) == c = BrotliEnd \/ c >= BrotliEncode(BrotliEnd)
BrotliDecode(c) == c - 10

\* hash.digest('hex') of the bytes written to the hash object.
Sha256Hex(bytes) == <<Len(bytes)>> \o bytes

----------------------------------------------------------------------------
(* output                                                                   *)

Entry(i, text, dir, bytes, rows) ==
    [line |-> i, text |-> text, dir |-> dir, bytes |-> bytes, rows |-> rows]

Say(i, text) == Entry(i, text, <<>>, <<>>, <<>>)

\* Classify without the test for 'Invalid input'.
ClassifyDefault(message) == "Operation failed"

\* index.js:190-192: any message other than the two known ones becomes 'Operation failed'.
Classify(message) ==
    IF message = "Invalid input" \/ message = "Operation failed"
    THEN message ELSE "Operation failed"

\* index.js:189-193, the catch block: one line on stderr.
Catch(o, i, message) == Append(o, Say(i, Classify(message)))

\* index.js:23-26
showCurrentDir(o, i, dir) == Append(o, Entry(i, "You are currently in", dir, <<>>, <<>>))

\* index.js:59: sort((a, b) => a.name.localeCompare(b.name)) over single lower-case letters.
NameOrder == <<"a", "b", "c", "d", "e", "h", "n", "u", "x", "y">>
NameRank(n) == CHOOSE k \in 1..Len(NameOrder) : NameOrder[k] = n
LocaleCompare(a, b) == NameRank(a) - NameRank(b)

RECURSIVE SortByName(_)
SortByName(S) ==
    IF S = {} THEN <<>>
    ELSE LET m == CHOOSE e \in S : \A f \in S : LocaleCompare(e.name, f.name) <= 0
         IN  <<m>> \o SortByName(S \ {m})

\* index.js:56-59: directories and files are concatenated, then the whole list is sorted.
LsTable(items) ==
    LET lsDirs == {e \in items : e.type = "directory"}
        lsFiles == {e \in items : e.type = "file"}
    IN  SortByName(lsDirs \cup lsFiles)

----------------------------------------------------------------------------
(* handler invocations                                                      *)

\* What remains of an invocation once nothing of it is pending.
Idle ==
    [cmd |-> "", pc |-> "done", io |-> "none", res |-> "",
     p1 |-> <<>>, p2 |-> <<>>, ino |-> 0 - 1, wino |-> 0 - 1,
     pos |-> 0, acc |-> <<>>, fin |-> FALSE, rows |-> {}]

Done(r) == [Idle EXCEPT !.res = r]

\* The names the program declares or Node provides: a read of any other identifier throws.
Globals ==
    {"fs", "fsSync", "path", "os", "crypto", "zlib", "pipeline", "readline",
     "args", "username", "rl", "currentDir", "showCurrentDir", "isRootDir",
     "handleCommand", "process", "console", "require"}

\* CdCondition as it would be with the stray identifier of line 50 evaluating to a falsy
\* value instead of throwing: the test passes or fails on its two other operands.
CdConditionEvaluates(newDir) ==
    IF ~isRootDir(newDir) \/ StartsWith(newDir, HomeDir) THEN "true" ELSE "false"

\* index.js:50: the condition reads  !isRootDir(newDir) | <U+0434> | newDir.startsWith(os.homedir()),
\* two bitwise ORs around the identifier U+0434 (a Cyrillic letter), which nothing declares.
CdCondition(newDir) ==
    IF "U+0434" \notin Globals THEN "ReferenceError"
    ELSE IF ~isRootDir(newDir) \/ StartsWith(newDir, HomeDir) THEN "true" ELSE "false"

\* index.js:119-140
OsFlags == {"--EOL", "--cpus", "--homedir", "--username", "--architecture"}

Commands ==
    {"up", "cd", "ls", "cat", "add", "rn", "cp", "mv", "rm", "os", "hash",
     "compress", "decompress", ".exit"}

\* index.js:34: the command and its arguments; an empty line has the command undefined.
Cmd(c, args) == [cmd |-> c, args |-> args]

\* No line is being read: the step is a callback of the event loop or the thread pool.
NoLine == Cmd("none", <<>>)

\* The input lines the environment chooses from.
Lines ==
    { Cmd("up", <<>>),
      Cmd("cd", <<>>), Cmd("cd", <<Rel(<<"d">>)>>), Cmd("cd", <<Rel(<<"n">>)>>),
      Cmd("cd", <<Rel(<<"a">>)>>), Cmd("cd", <<Abs(<<"x", "y">>)>>),
      Cmd("ls", <<>>),
      Cmd("cat", <<>>), Cmd("cat", <<Rel(<<"a">>)>>), Cmd("cat", <<Rel(<<"n">>)>>),
      Cmd("add", <<>>), Cmd("add", <<Rel(<<"n">>)>>), Cmd("add", <<Abs(<<"x", "n">>)>>),
      Cmd("rn", <<>>), Cmd("rn", <<Rel(<<"a">>)>>), Cmd("rn", <<Rel(<<"a">>), Rel(<<"b">>)>>),
      Cmd("rn", <<Rel(<<".">>), Rel(<<"e">>)>>),
      Cmd("cp", <<>>), Cmd("cp", <<Rel(<<"a">>)>>), Cmd("cp", <<Rel(<<"a">>), Rel(<<"b">>)>>),
      Cmd("cp", <<Rel(<<"n">>), Rel(<<"b">>)>>), Cmd("cp", <<Rel(<<"a">>), Rel(<<"a">>)>>),
      Cmd("mv", <<>>), Cmd("mv", <<Rel(<<"a">>)>>), Cmd("mv", <<Rel(<<"a">>), Rel(<<"b">>)>>),
      Cmd("mv", <<Rel(<<"n">>), Rel(<<"b">>)>>), Cmd("mv", <<Rel(<<"a">>), Rel(<<"a">>)>>),
      Cmd("rm", <<>>), Cmd("rm", <<Rel(<<"a">>)>>), Cmd("rm", <<Rel(<<"n">>)>>),
      Cmd("os", <<>>), Cmd("os", <<Rel(<<"--EOL">>)>>), Cmd("os", <<Rel(<<"--bogus">>)>>),
      Cmd("hash", <<>>), Cmd("hash", <<Rel(<<"a">>)>>), Cmd("hash", <<Rel(<<"n">>)>>),
      Cmd("compress", <<>>), Cmd("compress", <<Rel(<<"a">>)>>),
      Cmd("compress", <<Rel(<<"a">>), Rel(<<"c">>)>>),
      Cmd("decompress", <<>>), Cmd("decompress", <<Rel(<<"c">>)>>),
      Cmd("decompress", <<Rel(<<"c">>), Rel(<<"e">>)>>),
      Cmd("decompress", <<Rel(<<"a">>), Rel(<<"e">>)>>),
      Cmd(".exit", <<>>),
      Cmd("undefined", <<>>), Cmd("bogus", <<Rel(<<"a">>)>>) }

\* index.js:10-21: the state when the first prompt has been shown.
Init ==
    /\ currentDir = HomeDir
    /\ dirs = {<<>>, <<"h">>, <<"h", "u">>, <<"h", "u", "d">>, <<"x">>, <<"x", "y">>}
    /\ files = (<<"h", "u", "a">> :> 0)
    /\ data = (0 :> <<7>>)
    /\ h = <<>>
    /\ input = NoLine
    /\ out = showCurrentDir(<<Say(0, "Welcome to the File Manager")>>, 0, HomeDir)
    /\ proc = "running"

\* index.js:197: readline hands line l to handleCommand, whatever earlier handlers are doing.
Accept(l, c) ==
    /\ proc = "running"
    /\ Len(h) < MaxLines
    /\ l.cmd = c
    /\ input' = l

\* The index of the invocation a line starts.
me == Len(h) + 1

\* A throw in the synchronous part of a new invocation: catch, then showCurrentDir.
Throws(message) ==
    /\ out' = showCurrentDir(Catch(out, me, message), me, currentDir)
    /\ h' = Append(h, Done("failed"))

\* The invocation suspends at its first await (or returns with a stream still running).
Suspends(rec) == h' = Append(h, rec) /\ out' = out

\* A throw after an await: catch, then showCurrentDir.
ThrowsAt(i, message) ==
    /\ out' = showCurrentDir(Catch(out, i, message), i, currentDir)
    /\ h' = [h EXCEPT ![i] = Done("failed")]

\* An uncaught exception (a throw outside every try, an 'error' event nobody listens to):
\* Node prints the error and the process dies.
Uncaught(i) ==
    /\ out' = Append(out, Say(i, "Uncaught exception"))
    /\ proc' = "crashed"

Pending(i, c, pc) ==
    /\ proc = "running"
    /\ i \in DOMAIN h
    /\ h[i].cmd = c
    /\ h[i].pc = pc

----------------------------------------------------------------------------
(* handleCommand up to its first await, one action per case of the switch   *)

\* index.js:39-43
Up(l) ==
    /\ Accept(l, "up")
    /\ currentDir' = IF ~isRootDir(currentDir) THEN Dirname(currentDir) ELSE currentDir
    /\ out' = showCurrentDir(out, me, currentDir')
    /\ h' = Append(h, Done("ok"))
    /\ UNCHANGED <<dirs, files, data, proc>>

\* index.js:45-48, up to await fs.stat
Cd(l) ==
    /\ Accept(l, "cd")
    /\ IF Len(l.args) < 1
       THEN Throws("Invalid input")
       ELSE Suspends([Idle EXCEPT !.cmd = "cd", !.pc = "stat",
                                  !.p1 = Resolve(currentDir, l.args[1])])
    /\ UNCHANGED <<currentDir, dirs, files, data, proc>>

\* index.js:55-56, up to await fs.readdir
Ls(l) ==
    /\ Accept(l, "ls")
    /\ Suspends([Idle EXCEPT !.cmd = "ls", !.pc = "readdir", !.p1 = currentDir])
    /\ UNCHANGED <<currentDir, dirs, files, data, proc>>

\* index.js:64-69, up to the await on the read stream's 'end'
Cat(l) ==
    /\ Accept(l, "cat")
    /\ IF Len(l.args) < 1
       THEN Throws("Invalid input")
       ELSE Suspends([Idle EXCEPT !.cmd = "cat", !.pc = "await", !.io = "opening",
                                  !.p1 = Resolve(currentDir, l.args[1])])
    /\ UNCHANGED <<currentDir, dirs, files, data, proc>>

\* index.js:73-75, up to await fs.writeFile
Add(l) ==
    /\ Accept(l, "add")
    /\ IF Len(l.args) < 1
       THEN Throws("Invalid input")
       ELSE Suspends([Idle EXCEPT !.cmd = "add", !.pc = "call",
                                  !.p1 = Join(currentDir, l.args[1])])
    /\ UNCHANGED <<currentDir, dirs, files, data, proc>>

\* index.js:78-82, up to await fs.rename
Rn(l) ==
    /\ Accept(l, "rn")
    /\ IF Len(l.args) < 1 \/ Len(l.args) < 2
       THEN Throws("Invalid input")
       ELSE LET oldPath == Resolve(currentDir, l.args[1])
            IN  Suspends([Idle EXCEPT !.cmd = "rn", !.pc = "call", !.p1 = oldPath,
                                      !.p2 = Join(Dirname(oldPath), l.args[2])])
    /\ UNCHANGED <<currentDir, dirs, files, data, proc>>

\* index.js:85-94 and 194: the pipeline is started and not awaited; showCurrentDir follows at once.
Cp(l) ==
    /\ Accept(l, "cp")
    /\ IF Len(l.args) < 1 \/ Len(l.args) < 2
       THEN Throws("Invalid input")
       ELSE /\ h' = Append(h, [Idle EXCEPT !.cmd = "cp", !.res = "ok", !.io = "opening",
                                           !.p1 = Resolve(currentDir, l.args[1]),
                                           !.p2 = Resolve(currentDir, l.args[2])])
            /\ out' = showCurrentDir(out, me, currentDir)
    /\ UNCHANGED <<currentDir, dirs, files, data, proc>>

\* index.js:96-102, up to the await on the promise around pipeline
Mv(l) ==
    /\ Accept(l, "mv")
    /\ IF Len(l.args) < 1 \/ Len(l.args) < 2
       THEN Throws("Invalid input")
       ELSE Suspends([Idle EXCEPT !.cmd = "mv", !.pc = "await", !.io = "opening",
                                  !.p1 = Resolve(currentDir, l.args[1]),
                                  !.p2 = Resolve(currentDir, l.args[2])])
    /\ UNCHANGED <<currentDir, dirs, files, data, proc>>

\* index.js:111-113, up to await fs.unlink
Rm(l) ==
    /\ Accept(l, "rm")
    /\ IF Len(l.args) < 1
       THEN Throws("Invalid input")
       ELSE Suspends([Idle EXCEPT !.cmd = "rm", !.pc = "call",
                                  !.p1 = Resolve(currentDir, l.args[1])])
    /\ UNCHANGED <<currentDir, dirs, files, data, proc>>

\* index.js:117-141: nothing is awaited; the text printed is the flag's value.
Os(l) ==
    /\ Accept(l, "os")
    /\ IF Len(l.args) < 1
       THEN Throws("Invalid input")
       ELSE IF ~l.args[1].abs /\ Len(l.args[1].segs) = 1 /\ l.args[1].segs[1] \in OsFlags
            THEN /\ out' = showCurrentDir(Append(out, Say(me, l.args[1].segs[1])), me, currentDir)
                 /\ h' = Append(h, Done("ok"))
            ELSE Throws("Invalid input")
    /\ UNCHANGED <<currentDir, dirs, files, data, proc>>

\* index.js:144-150, up to the await on the hash's 'finish'
Hash(l) ==
    /\ Accept(l, "hash")
    /\ IF Len(l.args) < 1
       THEN Throws("Invalid input")
       ELSE Suspends([Idle EXCEPT !.cmd = "hash", !.pc = "await", !.io = "opening",
                                  !.p1 = Resolve(currentDir, l.args[1])])
    /\ UNCHANGED <<currentDir, dirs, files, data, proc>>

\* index.js:158-168 and 194: as cp, the pipeline is not awaited.
Compress(l) ==
    /\ Accept(l, "compress")
    /\ IF Len(l.args) < 1 \/ Len(l.args) < 2
       THEN Throws("Invalid input")
       ELSE /\ h' = Append(h, [Idle EXCEPT !.cmd = "compress", !.res = "ok", !.io = "opening",
                                           !.p1 = Resolve(currentDir, l.args[1]),
                                           !.p2 = Resolve(currentDir, l.args[2])])
            /\ out' = showCurrentDir(out, me, currentDir)
    /\ UNCHANGED <<currentDir, dirs, files, data, proc>>

\* index.js:170-180 and 194: as cp, the pipeline is not awaited.
Decompress(l) ==
    /\ Accept(l, "decompress")
    /\ IF Len(l.args) < 1 \/ Len(l.args) < 2
       THEN Throws("Invalid input")
       ELSE /\ h' = Append(h, [Idle EXCEPT !.cmd = "decompress", !.res = "ok", !.io = "opening",
                                           !.p1 = Resolve(currentDir, l.args[1]),
                                           !.p2 = Resolve(currentDir, l.args[2])])
            /\ out' = showCurrentDir(out, me, currentDir)
    /\ UNCHANGED <<currentDir, dirs, files, data, proc>>

\* index.js:182-184
Exit(l) ==
    /\ Accept(l, ".exit")
    /\ out' = Append(out, Say(me, "Thank you for using File Manager"))
    /\ h' = Append(h, Done("ok"))
    /\ proc' = "exited"
    /\ UNCHANGED <<currentDir, dirs, files, data>>

\* index.js:186-187
Unknown(l) ==
    /\ Accept(l, l.cmd)
    /\ l.cmd \notin Commands
    /\ Throws("Invalid input")
    /\ UNCHANGED <<currentDir, dirs, files, data, proc>>

----------------------------------------------------------------------------
(* filesystem calls in the thread pool, and the continuations after await   *)

\* A continuation that only has showCurrentDir left, or the catch block before it.
Resumes(i) ==
    /\ IF h[i].res = "ok"
       THEN /\ out' = showCurrentDir(out, i, currentDir)
            /\ h' = [h EXCEPT ![i] = Done("ok")]
       ELSE ThrowsAt(i, h[i].res)
    /\ input' = NoLine
    /\ UNCHANGED <<currentDir, dirs, files, data, proc>>

\* index.js:48: fs.stat(newDir) is executed
CdStat(i) ==
    /\ Pending(i, "cd", "stat")
    /\ h' = [h EXCEPT ![i].pc = "stat_done", ![i].res = Stat(h[i].p1)]
    /\ input' = NoLine
    /\ UNCHANGED <<currentDir, dirs, files, data, out, proc>>

\* index.js:48-53 after the await, then 189-194
CdResume(i) ==
    /\ Pending(i, "cd", "stat_done")
    /\ LET newDir == h[i].p1
           cond == CdCondition(newDir)
       IN  IF h[i].res = "ENOENT" THEN ThrowsAt(i, "ENOENT") /\ currentDir' = currentDir
           ELSE IF h[i].res # "dir" THEN ThrowsAt(i, "Invalid input") /\ currentDir' = currentDir
           ELSE IF cond = "ReferenceError"
                THEN ThrowsAt(i, "ReferenceError") /\ currentDir' = currentDir
                ELSE /\ currentDir' = IF cond = "true" THEN newDir ELSE currentDir
                     /\ out' = showCurrentDir(out, i, currentDir')
                     /\ h' = [h EXCEPT ![i] = Done("ok")]
    /\ input' = NoLine
    /\ UNCHANGED <<dirs, files, data, proc>>

\* index.js:56: fs.readdir(currentDir) is executed
LsReaddir(i) ==
    /\ Pending(i, "ls", "readdir")
    /\ h' = [h EXCEPT ![i].pc = "readdir_done",
                      ![i].res = IF IsDir(h[i].p1) THEN "ok" ELSE "ENOENT",
                      ![i].rows = IF IsDir(h[i].p1) THEN ReadDir(h[i].p1) ELSE {}]
    /\ input' = NoLine
    /\ UNCHANGED <<currentDir, dirs, files, data, out, proc>>

\* index.js:57-61 after the await, then 189-194
LsResume(i) ==
    /\ Pending(i, "ls", "readdir_done")
    /\ IF h[i].res = "ok"
       THEN /\ out' = showCurrentDir(
                         Append(out, Entry(i, "table", <<>>, <<>>, LsTable(h[i].rows))),
                         i, currentDir)
            /\ h' = [h EXCEPT ![i] = Done("ok")]
       ELSE ThrowsAt(i, h[i].res)
    /\ input' = NoLine
    /\ UNCHANGED <<currentDir, dirs, files, data, proc>>

\* index.js:75: fs.writeFile(path, '') is executed
AddWrite(i) ==
    /\ Pending(i, "add", "call")
    /\ LET p == h[i].p1
       IN  IF CanWrite(p)
           THEN /\ files' = FilesAfterOpenW(p, i)
                /\ data' = DataAfterOpenW(p, i)
                /\ h' = [h EXCEPT ![i].pc = "returned", ![i].res = "ok"]
           ELSE /\ h' = [h EXCEPT ![i].pc = "returned", ![i].res = "ENOENT"]
                /\ UNCHANGED <<files, data>>
    /\ input' = NoLine
    /\ UNCHANGED <<currentDir, dirs, out, proc>>

\* index.js:75-76 after the await, then 189-194
AddResume(i) == Pending(i, "add", "returned") /\ Resumes(i)

\* index.js:82: fs.rename(oldPath, newPath) is executed
RnRename(i) ==
    /\ Pending(i, "rn", "call")
    /\ LET oldPath == h[i].p1
           newPath == h[i].p2
       IN  IF CanRename(oldPath, newPath)
           THEN /\ dirs' = DirsAfterRename(oldPath, newPath)
                /\ files' = FilesAfterRename(oldPath, newPath)
                /\ h' = [h EXCEPT ![i].pc = "returned", ![i].res = "ok"]
           ELSE /\ h' = [h EXCEPT ![i].pc = "returned", ![i].res = "ENOENT"]
                /\ UNCHANGED <<dirs, files>>
    /\ input' = NoLine
    /\ UNCHANGED <<currentDir, data, out, proc>>

\* index.js:82-83 after the await, then 189-194
RnResume(i) == Pending(i, "rn", "returned") /\ Resumes(i)

\* index.js:113: fs.unlink(path) is executed
RmUnlink(i) ==
    /\ Pending(i, "rm", "call")
    /\ LET p == h[i].p1
       IN  IF CanUnlink(p)
           THEN /\ files' = FilesAfterUnlink(p)
                /\ h' = [h EXCEPT ![i].pc = "returned", ![i].res = "ok"]
           ELSE /\ h' = [h EXCEPT ![i].pc = "returned", ![i].res = "ENOENT"]
                /\ UNCHANGED files
    /\ input' = NoLine
    /\ UNCHANGED <<currentDir, dirs, data, out, proc>>

\* index.js:113-114 after the await, then 189-194
RmResume(i) == Pending(i, "rm", "returned") /\ Resumes(i)

----------------------------------------------------------------------------
(* read streams without a pipeline: cat and hash                            *)

\* The chunk a flowing read stream delivers next; the stream ends where the file now ends.
HasChunk(i) == h[i].io = "flowing" /\ h[i].pos < Len(data[h[i].ino])
AtEnd(i) == h[i].io = "flowing" /\ h[i].pos >= Len(data[h[i].ino])
Chunk(i) == data[h[i].ino][h[i].pos + 1]

\* index.js:67: the read stream opens the file; nothing listens to its 'error' event.
CatOpen(i) ==
    /\ Pending(i, "cat", "await")
    /\ h[i].io = "opening"
    /\ IF CanRead(h[i].p1)
       THEN /\ h' = [h EXCEPT ![i].io = "flowing", ![i].ino = files[h[i].p1]]
            /\ UNCHANGED <<out, proc>>
       ELSE Uncaught(i) /\ h' = [h EXCEPT ![i].io = "failed"]
    /\ input' = NoLine
    /\ UNCHANGED <<currentDir, dirs, files, data>>

\* index.js:68: pipe writes the chunk to process.stdout
CatChunk(i) ==
    /\ Pending(i, "cat", "await")
    /\ HasChunk(i)
    /\ out' = Append(out, Entry(i, "data", <<>>, <<Chunk(i)>>, <<>>))
    /\ h' = [h EXCEPT ![i].pos = @ + 1]
    /\ input' = NoLine
    /\ UNCHANGED <<currentDir, dirs, files, data, proc>>

\* index.js:69-71 after 'end', then 194
CatEnd(i) ==
    /\ Pending(i, "cat", "await")
    /\ AtEnd(i)
    /\ out' = showCurrentDir(Append(out, Say(i, "newline")), i, currentDir)
    /\ h' = [h EXCEPT ![i] = Done("ok")]
    /\ input' = NoLine
    /\ UNCHANGED <<currentDir, dirs, files, data, proc>>

\* index.js:148: the read stream opens the file; nothing listens to its 'error' event.
HashOpen(i) ==
    /\ Pending(i, "hash", "await")
    /\ h[i].io = "opening"
    /\ IF CanRead(h[i].p1)
       THEN /\ h' = [h EXCEPT ![i].io = "flowing", ![i].ino = files[h[i].p1]]
            /\ UNCHANGED <<out, proc>>
       ELSE Uncaught(i) /\ h' = [h EXCEPT ![i].io = "failed"]
    /\ input' = NoLine
    /\ UNCHANGED <<currentDir, dirs, files, data>>

\* index.js:149 and 152: the stream is piped into the hash twice, so both 'data'
\* listeners write the chunk to it.
HashChunk(i) ==
    /\ Pending(i, "hash", "await")
    /\ HasChunk(i)
    /\ h' = [h EXCEPT ![i].pos = @ + 1, ![i].acc = @ \o <<Chunk(i), Chunk(i)>>]
    /\ input' = NoLine
    /\ UNCHANGED <<currentDir, dirs, files, data, out, proc>>

\* index.js:151-155 after 'finish', then 194
HashEnd(i) ==
    /\ Pending(i, "hash", "await")
    /\ AtEnd(i)
    /\ out' = showCurrentDir(
                 Append(out, Entry(i, "digest", <<>>, Sha256Hex(h[i].acc), <<>>)),
                 i, currentDir)
    /\ h' = [h EXCEPT ![i] = Done("ok")]
    /\ input' = NoLine
    /\ UNCHANGED <<currentDir, dirs, files, data, proc>>

----------------------------------------------------------------------------
(* stream.pipeline: cp, mv, compress, decompress                            *)

PipeCmds == {"cp", "mv", "compress", "decompress"}

Piping(i) == proc = "running" /\ i \in DOMAIN h /\ h[i].cmd \in PipeCmds

\* PipelineFails with mv's callback lacking line 104's return: it goes on to fs.unlink.
PipelineFailsThenUnlinks(i) ==
    IF h[i].cmd = "mv"
    THEN h' = [h EXCEPT ![i].pc = "unlink", ![i].io = "failed"] /\ UNCHANGED <<out, proc>>
    ELSE Uncaught(i) /\ h' = [h EXCEPT ![i].io = "failed"]

\* The pipeline's callback is called with an error.
\* index.js:104: mv rejects the awaited promise, which the catch block reports.
\* index.js:92, 166, 178: the others throw inside the callback, outside every try.
PipelineFails(i) ==
    IF h[i].cmd = "mv"
    THEN ThrowsAt(i, "Operation failed") /\ proc' = proc
    ELSE Uncaught(i) /\ h' = [h EXCEPT ![i].io = "failed"]

\* index.js:89-90, 100-101, 162-164, 174-176: both streams open their files; the write
\* stream's open(dest, 'w') creates or truncates dest whether or not the source opens.
PipeOpen(i) ==
    /\ Piping(i)
    /\ h[i].io = "opening"
    /\ LET src == h[i].p1
           dest == h[i].p2
       IN  /\ IF CanWrite(dest)
              THEN files' = FilesAfterOpenW(dest, i) /\ data' = DataAfterOpenW(dest, i)
              ELSE UNCHANGED <<files, data>>
           /\ IF CanRead(src) /\ CanWrite(dest)
              THEN /\ h' = [h EXCEPT ![i].io = "flowing", ![i].ino = files[src],
                                     ![i].wino = WriteIno(dest, i)]
                   /\ UNCHANGED <<out, proc>>
              ELSE PipelineFails(i)
    /\ input' = NoLine
    /\ UNCHANGED <<currentDir, dirs>>

\* One chunk travels from the source through the transform to the sink.
PipeChunk(i) ==
    /\ Piping(i)
    /\ HasChunk(i)
    /\ LET c == Chunk(i)
           w == h[i].wino
       IN  IF h[i].cmd = "decompress"
           THEN IF ~BrotliValid(c)
                THEN PipelineFails(i) /\ data' = data
                ELSE /\ h' = [h EXCEPT ![i].pos = @ + 1,
                                       ![i].fin = (@ \/ c = BrotliEnd)]
                     /\ data' = IF c = BrotliEnd THEN data
                                ELSE [data EXCEPT ![w] = Append(@, BrotliDecode(c))]
                     /\ UNCHANGED <<out, proc>>
           ELSE /\ h' = [h EXCEPT ![i].pos = @ + 1]
                /\ data' = [data EXCEPT ![w] = Append(@, IF h[i].cmd = "compress"
                                                         THEN BrotliEncode(c) ELSE c)]
                /\ UNCHANGED <<out, proc>>
    /\ input' = NoLine
    /\ UNCHANGED <<currentDir, dirs, files>>

\* The source has ended: the transform is flushed, the sink finishes and the callback runs.
\* index.js:91-93, 165-167, 177-179: without an error the callback does nothing;
\* index.js:103-105: mv goes on to fs.unlink.
PipeEnd(i) ==
    /\ Piping(i)
    /\ AtEnd(i)
    /\ IF h[i].cmd = "decompress" /\ ~h[i].fin
       THEN PipelineFails(i) /\ data' = data
       ELSE /\ data' = IF h[i].cmd = "compress"
                       THEN [data EXCEPT ![h[i].wino] = Append(@, BrotliEnd)]
                       ELSE data
            /\ h' = IF h[i].cmd = "mv"
                    THEN [h EXCEPT ![i].pc = "unlink", ![i].io = "closed"]
                    ELSE [h EXCEPT ![i] = Done("ok")]
            /\ UNCHANGED <<out, proc>>
    /\ input' = NoLine
    /\ UNCHANGED <<currentDir, dirs, files>>

\* index.js:105: fs.unlink(srcMvPath) is executed
MvUnlink(i) ==
    /\ Pending(i, "mv", "unlink")
    /\ LET p == h[i].p1
       IN  IF CanUnlink(p)
           THEN /\ files' = FilesAfterUnlink(p)
                /\ h' = [h EXCEPT ![i].pc = "unlinked", ![i].res = "ok"]
           ELSE /\ h' = [h EXCEPT ![i].pc = "unlinked", ![i].res = "ENOENT"]
                /\ UNCHANGED files
    /\ input' = NoLine
    /\ UNCHANGED <<currentDir, dirs, data, out, proc>>

\* index.js:105-106 after the await: resolve() and then 109, 194.  When unlink has failed,
\* the async callback's promise rejects and nobody handles it: Node either throws it as
\* an uncaught exception (the default since Node 15) or only warns, and then the
\* promise handleCommand awaits is never settled.
MvResume(i) ==
    /\ Pending(i, "mv", "unlinked")
    /\ IF h[i].res = "ok"
       THEN /\ out' = showCurrentDir(out, i, currentDir)
            /\ h' = [h EXCEPT ![i] = Done("ok")]
            /\ proc' = proc
       ELSE \/ Uncaught(i) /\ h' = [h EXCEPT ![i].pc = "rejected"]
            \/ /\ out' = Append(out, Say(i, "UnhandledPromiseRejectionWarning"))
               /\ h' = [h EXCEPT ![i].pc = "never"]
               /\ proc' = proc
    /\ input' = NoLine
    /\ UNCHANGED <<currentDir, dirs, files, data>>

----------------------------------------------------------------------------

Handlers == 1..Len(h)

\* The steps the event loop and the thread pool take on their own.
Step(i) ==
    \/ CdStat(i) \/ CdResume(i)
    \/ LsReaddir(i) \/ LsResume(i)
    \/ AddWrite(i) \/ AddResume(i)
    \/ RnRename(i) \/ RnResume(i)
    \/ RmUnlink(i) \/ RmResume(i)
    \/ CatOpen(i) \/ CatChunk(i) \/ CatEnd(i)
    \/ HashOpen(i) \/ HashChunk(i) \/ HashEnd(i)
    \/ PipeOpen(i) \/ PipeChunk(i) \/ PipeEnd(i)
    \/ MvUnlink(i) \/ MvResume(i)

\* The input lines of each case of the switch; the default case takes the rest.
LinesOf == [c \in Commands |-> {l \in Lines : l.cmd = c}]
OtherLines == {l \in Lines : l.cmd \notin Commands}

\* The arrival of an input line, or a step of the event loop.
Next ==
    \/ \E l \in LinesOf["up"] : Up(l)
    \/ \E l \in LinesOf["cd"] : Cd(l)
    \/ \E l \in LinesOf["ls"] : Ls(l)
    \/ \E l \in LinesOf["cat"] : Cat(l)
    \/ \E l \in LinesOf["add"] : Add(l)
    \/ \E l \in LinesOf["rn"] : Rn(l)
    \/ \E l \in LinesOf["cp"] : Cp(l)
    \/ \E l \in LinesOf["mv"] : Mv(l)
    \/ \E l \in LinesOf["rm"] : Rm(l)
    \/ \E l \in LinesOf["os"] : Os(l)
    \/ \E l \in LinesOf["hash"] : Hash(l)
    \/ \E l \in LinesOf["compress"] : Compress(l)
    \/ \E l \in LinesOf["decompress"] : Decompress(l)
    \/ \E l \in LinesOf[".exit"] : Exit(l)
    \/ \E l \in OtherLines : Unknown(l)
    \/ \E i \in 1..MaxLines : Step(i)

Spec == Init /\ [][Next]_vars

\* Every callback that is ready runs, and every call handed to the thread pool returns.
FairSpec == Spec /\ \A i \in 1..MaxLines : WF_vars(Step(i))

----------------------------------------------------------------------------
(* the claims                                                               *)

ErrorTexts == {"Invalid input", "Operation failed"}

\* The error lines printed for line i.
ErrorLines(i) == {k \in 1..Len(out) : out[k].line = i /\ out[k].text \in ErrorTexts}

\* The stream or pipeline of line i is still running.
InFlight(i) == h[i].io \in {"opening", "flowing"}

\* The operation of line i has failed and nothing of the line is pending any more.
Failed(i) ==
    \/ h[i].pc = "done" /\ h[i].res = "failed"
    \/ h[i].io = "failed"
    \/ h[i].pc \in {"rejected", "never"}

\* C1: whenever the filesystem or stream operation of a command has failed, the failure
\* was caught by the dispatcher: exactly one error line was printed for that command
\* and the process is still alive.
C1_FailureIsCaught ==
    \A i \in Handlers :
        Failed(i) => proc # "crashed" /\ h[i].pc = "done" /\ Cardinality(ErrorLines(i)) = 1

\* C2: the output appears in the order of the input lines, and a line is handed to
\* the handler only when every earlier line has printed all its output, the prompt
\* included.
C2_OutputInLineOrder ==
    /\ \A j, k \in 1..Len(out) : j < k => out[j].line <= out[k].line
    /\ \A i \in Handlers : i < Len(h) => h[i].pc = "done"

\* C3: the prompt of a streaming command is shown, and the next line accepted, only
\* when its pipeline has resolved; at most one pipeline is in flight.
C3_PromptAfterPipeline ==
    /\ \A i \in Handlers : InFlight(i) => h[i].pc # "done" /\ i = Len(h)
    /\ Cardinality({i \in Handlers : InFlight(i)}) <= 1

\* Line i has been read and its handler has reached the end of handleCommand.
Completed(i) == i \in Handlers /\ h[i].pc = "done"

\* C4: every line that was read eventually completes its dispatch cycle (the prompt
\* is shown again), unless the session is ended by .exit.
C4_EveryLineCompletes ==
    \A i \in 1..MaxLines :
        (i \in Handlers) ~> (Completed(i) \/ proc = "exited")

\* The dispatch table's required argument counts, as the claim gives them.
MinArgs(c) ==
    IF c \in {"cd", "cat", "add", "rm", "os", "hash"} THEN 1
    ELSE IF c \in {"rn", "cp", "mv", "compress", "decompress"} THEN 2
    ELSE 0

InvalidLine(l) == l.cmd \notin Commands \/ Len(l.args) < MinArgs(l.cmd)

\* The step reads an input line.
ReadsLine == Len(h') = Len(h) + 1

\* C5: a line with an unknown command (or none), or with fewer arguments than its
\* command requires, prints 'Invalid input' and then the prompt, and changes neither
\* the current directory nor the filesystem.
C5_InvalidInput ==
    [][ReadsLine /\ InvalidLine(input') =>
            /\ out' = showCurrentDir(Append(out, Say(Len(h'), "Invalid input")),
                                     Len(h'), currentDir)
            /\ currentDir' = currentDir
            /\ dirs' = dirs /\ files' = files /\ data' = data
            /\ proc' = "running"]_vars

\* C5's case: rn was given one argument of its two, and 'Invalid input' was printed.
C5_Witness ==
    /\ input.cmd = "rn" /\ Len(input.args) = 1
    /\ Len(out) >= 2
    /\ out[Len(out) - 1] = Say(Len(h), "Invalid input")
    /\ out[Len(out)].text = "You are currently in"

\* C6: the current directory is an existing directory.
C6_CurrentDirExists == currentDir \in dirs

\* The continuation of cd after its probe runs in this step.
CdCompletes(i) == i \in Handlers /\ h[i].cmd = "cd" /\ h[i].pc = "stat_done" /\ h'[i].pc = "done"

\* C7: cd to an existing directory inside the home subtree makes it the current
\* directory and prints no error line, only the prompt.
C7_CdEntersDirectory ==
    [][\A i \in 1..MaxLines :
          CdCompletes(i) /\ h[i].res = "dir" /\ StartsWith(h[i].p1, HomeDir) =>
              /\ currentDir' = h[i].p1
              /\ out' = showCurrentDir(out, i, h[i].p1)]_vars

\* C8: cd to a target that does not exist or is not a directory prints 'Invalid input'
\* and leaves the current directory unchanged.
C8_CdBadTargetInvalidInput ==
    [][\A i \in 1..MaxLines :
          CdCompletes(i) /\ h[i].res # "dir" =>
              /\ currentDir' = currentDir
              /\ out' = showCurrentDir(Append(out, Say(i, "Invalid input")), i, currentDir)]_vars

\* The containment policy: the home subtree, and the root itself.
Contained(p) == StartsWith(p, HomeDir) \/ p = <<>>

\* C9: cd never moves the current directory outside the home subtree (the root
\* excepted), and a cd to an existing directory outside it is rejected with
\* 'Invalid input'.
C9_CdContainment ==
    [][\A i \in 1..MaxLines :
          CdCompletes(i) =>
              /\ currentDir' = currentDir \/ Contained(currentDir')
              /\ h[i].res = "dir" /\ ~Contained(h[i].p1) =>
                    /\ currentDir' = currentDir
                    /\ out' = showCurrentDir(Append(out, Say(i, "Invalid input")),
                                             i, currentDir)]_vars

\* C10: up at the root changes nothing; anywhere else, also directly under the root,
\* it moves to the parent directory.
C10_UpGoesToParent ==
    [][ReadsLine /\ input'.cmd = "up" =>
            currentDir' = IF currentDir = <<>> THEN <<>> ELSE Dirname(currentDir)]_vars

\* Handler i takes this step: a callback or continuation of line i runs.
Acts(i) == i \in Handlers /\ h'[i] # h[i]

\* The step prints the prompt on behalf of line i.
Prompts(i) ==
    /\ Len(out') > Len(out)
    /\ out'[Len(out')].line = i
    /\ out'[Len(out')].text = "You are currently in"

\* C11: mv executes the deletion of its source only when its pipeline has completed
\* without an error and every chunk of the source has been passed to the sink; a
\* failed pipeline ends the command with the source still in place; and the prompt
\* of mv is shown only after the copy and the deletion, or when the copy has failed.
C11_MvDeletesAfterCopy ==
    [][\A i \in 1..MaxLines :
          Acts(i) /\ h[i].cmd = "mv" =>
              /\ h[i].pc = "unlink" /\ h'[i].pc = "unlinked" =>
                    h[i].io = "closed" /\ h[i].pos >= Len(data[h[i].ino])
              /\ IsFile(h[i].p1) /\ h[i].p1 \notin DOMAIN files' =>
                    h[i].pc = "unlink" /\ h[i].io = "closed"
              /\ InFlight(i) /\ h'[i].res = "failed" =>
                    h'[i].pc = "done" /\ (IsFile(h[i].p1) => h[i].p1 \in DOMAIN files')
              /\ Prompts(i) =>
                    \/ h[i].pc = "unlinked" /\ h[i].res = "ok" /\ h[i].io = "closed"
                    \/ InFlight(i) /\ h'[i].res = "failed"]_vars

\* C11's case: mv has copied a non-empty source to another path and deleted it, and
\* is about to show the prompt.
C11_Witness ==
    \E i \in Handlers :
        /\ h[i].cmd = "mv" /\ h[i].pc = "unlinked" /\ h[i].res = "ok"
        /\ h[i].p1 # h[i].p2
        /\ ~IsFile(h[i].p1) /\ IsFile(h[i].p2)
        /\ data[files[h[i].p2]] = data[h[i].ino] /\ Len(data[h[i].ino]) > 0

\* C12: when mv's copy has succeeded and the deletion of the source has failed, the
\* command reports the failure: 'Operation failed' and then the prompt are printed,
\* and the session goes on.
C12_MvUnlinkFailureReported ==
    [][\A i \in 1..MaxLines :
          Acts(i) /\ h[i].cmd = "mv" /\ h[i].pc = "unlinked" /\ h[i].res # "ok" =>
              /\ out' = showCurrentDir(Append(out, Say(i, "Operation failed")), i, currentDir)
              /\ h'[i].pc = "done"
              /\ proc' = "running"]_vars

\* mv's handler i reports success in this step.
MvSucceeds(i) == Acts(i) /\ h[i].cmd = "mv" /\ h'[i].pc = "done" /\ h'[i].res = "ok"

\* C13: when mv reports success, the destination exists and holds the content of the
\* file mv opened as its source, and the source path is gone unless it is the
\* destination path itself.
C13_MvMovesContent ==
    [][\A i \in 1..MaxLines :
          MvSucceeds(i) =>
              /\ h[i].p2 \in DOMAIN files'
              /\ data'[files'[h[i].p2]] = data[h[i].ino]
              /\ h[i].p1 # h[i].p2 => h[i].p1 \notin DOMAIN files']_vars

\* C14: no step of cp changes its source: the source file exists after the step with
\* the content it had before it, also when the destination is the same path.
C14_CpLeavesSource ==
    [][\A i \in 1..MaxLines :
          Acts(i) /\ h[i].cmd = "cp" /\ IsFile(h[i].p1) =>
              /\ h[i].p1 \in DOMAIN files'
              /\ data'[files'[h[i].p1]] = data[files[h[i].p1]]]_vars

\* The prompt of line i, a streaming command c, has been shown and its pipeline has not failed.
Reported(i, c) == h[i].cmd = c /\ h[i].pc = "done" /\ h[i].io # "failed"

\* C15: once cp has shown its prompt, the destination exists and the digest of its
\* bytes is the digest of the source's bytes, so that hash on the two files prints
\* the same value.
C15_CpDoneBeforePrompt ==
    \A i \in Handlers :
        Reported(i, "cp") /\ IsFile(h[i].p1) =>
            /\ IsFile(h[i].p2)
            /\ Sha256Hex(data[files[h[i].p2]]) = Sha256Hex(data[files[h[i].p1]])

\* Line i is a compress of an existing file whose prompt has been shown and whose
\* pipeline has not yet written all of its output.
CompressUnfinished(i) ==
    /\ Reported(i, "compress")
    /\ h[i].io = "flowing" \/ (h[i].io = "opening" /\ IsFile(h[i].p1))

\* C16: a decompress on a later line than compress A C never reads C before compress
\* has written all of it: while the compress is unfinished, the decompress of C has
\* neither opened C nor failed on it.
C16_DecompressReadsWholeFile ==
    \A i, j \in Handlers :
        i < j /\ CompressUnfinished(i) /\ h[j].cmd = "decompress" /\ h[j].p1 = h[i].p2 =>
            h[j].io = "opening"

\* C17: when hash finishes, the bytes fed to the digest are the file's chunks, each
\* once and in order, and what it prints is the SHA-256 digest of the file's bytes
\* (of the empty sequence for an empty file), followed by the prompt.
C17_HashDigestsTheFile ==
    [][\A i \in 1..MaxLines :
          Acts(i) /\ h[i].cmd = "hash" /\ h'[i].pc = "done" /\ h'[i].res = "ok" =>
              /\ AtEnd(i)
              /\ h[i].acc = data[h[i].ino]
              /\ out' = showCurrentDir(
                            Append(out, Entry(i, "digest", <<>>,
                                              Sha256Hex(data[h[i].ino]), <<>>)),
                            i, currentDir)]_vars

\* The listing the claim describes: the directories by name, then the files by name.
DirsThenFiles(items) ==
    SortByName({e \in items : e.type = "directory"})
        \o SortByName({e \in items : e.type = "file"})

\* C18: the table ls prints holds every entry of the directory with its type, all
\* directories before all files, each of the two groups in alphabetical order.
C18_LsDirsFirst ==
    [][\A i \in 1..MaxLines :
          Acts(i) /\ h[i].cmd = "ls" /\ h'[i].pc = "done" /\ h'[i].res = "ok" =>
              out' = showCurrentDir(
                        Append(out, Entry(i, "table", <<>>, <<>>, DirsThenFiles(h[i].rows))),
                        i, currentDir)]_vars

\* C19: the current directory is never assigned by a handler that other lines have
\* overtaken: a cd whose probe returns after later lines were read leaves the current
\* directory as those lines set it, and every assignment is made either in the step
\* that reads the line or by the continuation of the newest line.  The assignments
\* therefore take effect in the order of the lines, as in a one-by-one execution.
C19_NoStaleAssignment ==
    [][/\ \A i \in 1..MaxLines :
             Acts(i) /\ h[i].cmd = "cd" /\ i < Len(h) => currentDir' = currentDir
       /\ currentDir' # currentDir =>
             ReadsLine \/ \E i \in 1..MaxLines : Acts(i) /\ i = Len(h)]_vars

\* C19's case: the probe of a cd into the home subtree has succeeded, and while the cd
\* was suspended a later line (an up) has moved the current directory away from the
\* one the target was resolved against.
C19_Witness ==
    \E i \in Handlers :
        /\ h[i].cmd = "cd" /\ h[i].pc = "stat_done" /\ h[i].res = "dir"
        /\ i < Len(h)
        /\ Dirname(h[i].p1) = HomeDir
        /\ currentDir # HomeDir

\* The commands that take a path, and those whose second argument is a path too.
PathCmds == {"cd", "cat", "add", "rn", "cp", "mv", "rm", "hash", "compress", "decompress"}
TwoPathCmds == {"cp", "mv", "compress", "decompress"}

\* C20: the path a command works on is its argument resolved against the current
\* directory by the one rule of path resolution (an absolute argument as it is, a
\* relative one joined to the current directory and normalized), for every command
\* that takes a path; add with an absolute argument works on that absolute path.
C20_OneResolutionRule ==
    [][ReadsLine /\ input'.cmd \in PathCmds /\ ~InvalidLine(input') =>
            /\ h'[Len(h')].p1 = Resolve(currentDir, input'.args[1])
            /\ input'.cmd \in TwoPathCmds =>
                  h'[Len(h')].p2 = Resolve(currentDir, input'.args[2])]_vars

====
